---- MODULE Spec2Model ----
(***************************************************************************)
(* Model of mig3.py: the Phriction-to-markdown migration.  main() fetches  *)
(* the rows, keeps the highest version of every document, indexes the      *)
(* documents by slug, fixes every path, rewrites every content and saves.  *)
(* Strings are sequences of one-character strings; a path is the sequence  *)
(* of its segments (pathlib's parts), each segment a string.               *)
(***************************************************************************)
EXTENDS Integers, Sequences, FiniteSets, TLC

VARIABLES rows, dirs, files, pc, i, max_versions, filtered_docs,
          docs_by_slug, saved, last, linked

vars == <<rows, dirs, files, pc, i, max_versions, filtered_docs,
          docs_by_slug, saved, last, linked>>

(***************************************************************************)
(* Bounds of the model.                                                    *)
(***************************************************************************)
MaxRows == 3
MaxVersion == 2
MaxDocs == 3
MaxChunks == 4
MaxText == 48

(***************************************************************************)
(* Characters and strings.                                                 *)
(***************************************************************************)
NL == "\n"
SP == " "

UpperCase == <<"A","B","C","D","E","F","G","H","I","J","K","L","M",
               "N","O","P","Q","R","S","T","U","V","W","X","Y","Z">>
LowerCase == <<"a","b","c","d","e","f","g","h","i","j","k","l","m",
               "n","o","p","q","r","s","t","u","v","w","x","y","z">>

ToLower(c) ==
    IF \E j \in 1..26 : UpperCase[j] = c
    THEN LowerCase[CHOOSE j \in 1..26 : UpperCase[j] = c]
    ELSE c

Lower(s) == [j \in 1..Len(s) |-> ToLower(s[j])]

IsSpace(c) == c \in {SP, NL}
IsDot(c) == c # NL
IsEq(c) == c = "="

Max(S) == CHOOSE x \in S : \A y \in S : y <= x
Min(S) == CHOOSE x \in S : \A y \in S : x <= y

Repeat(c, n) == [j \in 1..n |-> c]

\* text[a:] in 1-based form: the characters from index a to the end
From(t, a) == IF a > Len(t) THEN <<>> ELSE SubSeq(t, a, Len(t))

\* text[:a] in 1-based form: the characters before index a
Before(t, a) == IF a <= 1 THEN <<>> ELSE SubSeq(t, 1, a - 1)

(***************************************************************************)
(* Constants of the program.                                               *)
(***************************************************************************)
EXPORT_DIR == <<".", "/", "e", "x", "p", "o", "r", "t", "e", "d">>
README == <<"R", "E", "A", "D", "M", "E", ".", "m", "d">>
MD == <<".", "m", "d">>
Anchor == <<"/">>
DotDot == <<".", ".">>

(***************************************************************************)
(* pathlib.                                                                *)
(***************************************************************************)
RECURSIVE SplitFrom(_, _, _)
SplitFrom(s, j, cur) ==
    IF j > Len(s)
    THEN IF cur = <<>> THEN <<>> ELSE <<cur>>
    ELSE IF s[j] = "/"
         THEN (IF cur = <<>> THEN <<>> ELSE <<cur>>) \o SplitFrom(s, j + 1, <<>>)
         ELSE SplitFrom(s, j + 1, Append(cur, s[j]))

\* the segments of a path string; empty and "." segments are dropped
Parts(s) == SelectSeq(SplitFrom(s, 1, <<>>), LAMBDA p : p # <<".">>)

\* Path(a, b): an absolute b replaces a
Path(a, b) ==
    IF b # <<>> /\ b[1] = "/"
    THEN <<Anchor>> \o Parts(b)
    ELSE Parts(a) \o Parts(b)

Parent(p) ==
    IF p = <<>> \/ p = <<Anchor>> THEN p ELSE SubSeq(p, 1, Len(p) - 1)

RECURSIVE Join(_)
Join(p) ==
    IF p = <<>> THEN <<>>
    ELSE IF Len(p) = 1 THEN p[1]
    ELSE p[1] \o <<"/">> \o Join(Tail(p))

\* str(path)
Str(p) ==
    IF p = <<>> THEN <<".">>
    ELSE IF p[1] = Anchor THEN <<"/">> \o Join(Tail(p))
    ELSE Join(p)

\* PurePath.suffix of a file name: from the last dot, unless that dot is
\* the first or the last character
Suffix(name) ==
    LET D == {j \in 1..Len(name) : name[j] = "."}
    IN IF D = {} THEN <<>>
       ELSE IF 1 < Max(D) /\ Max(D) < Len(name)
            THEN SubSeq(name, Max(D), Len(name))
            ELSE <<>>

\* path.with_suffix(".md"): an existing suffix is replaced
WithSuffixMd(p) ==
    LET name == p[Len(p)]
        stem == SubSeq(name, 1, Len(name) - Len(Suffix(name)))
    IN Parent(p) \o <<stem \o MD>>

IsPrefix(a, b) == Len(a) <= Len(b) /\ SubSeq(b, 1, Len(a)) = a

\* path.mkdir(parents=True, exist_ok=True)
Mkdirs(p) == {SubSeq(p, 1, k) : k \in 0..Len(p)}

(***************************************************************************)
(* Utils.                                                                  *)
(***************************************************************************)
\* to.relative_to(from_): defined when from_ is a prefix of to
IsRelativeTo(to, from_) == IsPrefix(from_, to)

RelativeTo(to, from_) == SubSeq(to, Len(from_) + 1, Len(to))

RECURSIVE regressive_relative_to_flat(_, _)
regressive_relative_to_flat(from_, to) ==
    IF IsRelativeTo(to, from_)
    THEN [path |-> RelativeTo(to, from_), climbs |-> 0]
    ELSE LET r == regressive_relative_to_flat(Parent(from_), to)
         IN [path |-> r.path, climbs |-> r.climbs + 1]

\* the relative path from directory from_ to the file to, and the number
\* of levels climbed (the depth of the recursion)
RECURSIVE regressive_relative_to(_, _)
regressive_relative_to(from_, to) ==
    IF IsRelativeTo(to, from_)
    THEN [path |-> RelativeTo(to, from_), climbs |-> 0]
    ELSE LET r == regressive_relative_to(Parent(from_), to)
         IN [path |-> Path(DotDot, Str(r.path)), climbs |-> r.climbs + 1]

render_link(from_, to, text) ==
    <<"[">> \o text \o <<"]", "(">> \o Str(regressive_relative_to(from_, to).path)
            \o <<")">>

format_slug(url) ==
    Lower(IF url[Len(url)] # "/" THEN url \o <<"/">> ELSE url)

(***************************************************************************)
(* Document.                                                               *)
(***************************************************************************)
\* Document.__init__: the fields of the row and the provisional path
Document(row) ==
    [id |-> row.id, version |-> row.version, slug |-> row.slug,
     title |-> row.title, content |-> row.content,
     documentPHID |-> row.documentPHID,
     path |-> IF row.slug = <<"/">> THEN Path(EXPORT_DIR, <<>>)
                                     ELSE Path(EXPORT_DIR, row.slug)]

\* Document.__init__: the parent of the provisional path is created
DirsAfterInit(d, path) ==
    IF Parent(path) \in d THEN d ELSE d \cup Mkdirs(Parent(path))

\* Document.correct_path
correct_path(d, path) ==
    IF path \in d THEN path \o <<README>> ELSE WithSuffixMd(path)

(***************************************************************************)
(* Access and filter functions.                                            *)
(***************************************************************************)
select_step_keep_last(mv, doc) ==
    IF \E j \in 1..Len(mv) : mv[j].documentPHID = doc.documentPHID
    THEN LET j == CHOOSE j \in 1..Len(mv) : mv[j].documentPHID = doc.documentPHID
         IN IF mv[j].version <= doc.version THEN [mv EXCEPT ![j] = doc] ELSE mv
    ELSE Append(mv, doc)

\* one iteration of select_max_version_of_documents; max_versions is the
\* dict in insertion order, keyed by documentPHID
select_step(mv, doc) ==
    IF \E j \in 1..Len(mv) : mv[j].documentPHID = doc.documentPHID
    THEN LET j == CHOOSE j \in 1..Len(mv) : mv[j].documentPHID = doc.documentPHID
         IN IF mv[j].version < doc.version THEN [mv EXCEPT ![j] = doc] ELSE mv
    ELSE Append(mv, doc)

\* get_documents_by_slug: slug -> position in docs of the last document
\* with that slug
get_documents_by_slug(docs) ==
    [s \in {docs[j].slug : j \in 1..Len(docs)} |->
        Max({j \in 1..Len(docs) : docs[j].slug = s})]

(***************************************************************************)
(* Regular expressions.  A match is the first one in the order in which    *)
(* the backtracking matcher tries them: the leftmost start, and at that    *)
(* start the greediest counts of the quantifiers, the earlier quantifier   *)
(* first.  An ...At operator is the set of that match (empty when the      *)
(* pattern does not match at s); a match has the 1-based index of its      *)
(* first and of its last character and its groups.                         *)
(***************************************************************************)
NoMatch == [found |-> FALSE]

\* the number of consecutive characters of t from index p on that satisfy P
RunLen(t, p, P(_)) ==
    IF p > Len(t) THEN 0
    ELSE Max({n \in 0..(Len(t) - p + 1) : \A j \in p..(p + n - 1) : P(t[j])})

\* a is tried before b, or is b: the first count that differs is greater
Greedier(a, b) ==
    \/ a = b
    \/ \E j \in 1..Len(a) : a[j] > b[j] /\ \A q \in 1..(j - 1) : a[q] = b[q]

\* the candidate the matcher finds first
Greediest(C) == {c \in C : \A o \in C : Greedier(c, o)}

\* regex.search: the leftmost of the matches
Leftmost(M) ==
    IF M = {} THEN NoMatch ELSE CHOOSE m \in M : \A o \in M : m.start <= o.start

\* INTERNAL_LINK_REGEX at s with k spaces, a slug of n + 1 characters and
\* m spaces:  \[\[ \s{k} ( .{n} \S ) \s{m} \]\]
InternalOK(t, s, k, n, m) ==
    LET e == s + 2 + k + n
        c == e + m + 1
    IN /\ c + 1 <= Len(t)
       /\ t[c] = "]" /\ t[c + 1] = "]"
       /\ ~IsSpace(t[e])
       /\ t[s] = "[" /\ t[s + 1] = "["
       /\ \A j \in (s + 2)..(s + 1 + k) : IsSpace(t[j])
       /\ \A j \in (s + 2 + k)..(e - 1) : IsDot(t[j])
       /\ \A j \in (e + 1)..(e + m) : IsSpace(t[j])

InternalAt(t, s) ==
    IF ~(s + 1 <= Len(t) /\ t[s] = "[" /\ t[s + 1] = "[") THEN {}
    ELSE {[found |-> TRUE, start |-> s, end |-> s + c[1] + c[2] + c[3] + 4,
           slug |-> SubSeq(t, s + 2 + c[1], s + 2 + c[1] + c[2])] :
            c \in Greediest({x \in (0..RunLen(t, s + 2, IsSpace)) \X (0..Len(t))
                                     \X (0..Len(t)) :
                                InternalOK(t, s, x[1], x[2], x[3])})}

\* INTERNAL_LINK_REGEX.search(t)
InternalSearch(t) == Leftmost(UNION {InternalAt(t, s) : s \in 1..Len(t)})

\* HEADER_REGEX at s:  (={g}) \x20{p1} (.{n}) \x20{p2} ={h}
HeaderOK(t, s, g, p1, n, p2, h) ==
    LET a == s + g
        b == a + p1
        c == b + n
        d == c + p2
    IN /\ d + h - 1 <= Len(t)
       /\ \A j \in d..(d + h - 1) : IsEq(t[j])
       /\ \A j \in s..(a - 1) : IsEq(t[j])
       /\ \A j \in a..(b - 1) : t[j] = SP
       /\ \A j \in c..(d - 1) : t[j] = SP
       /\ \A j \in b..(c - 1) : IsDot(t[j])

HeaderAt(t, s) ==
    IF ~(s <= Len(t) /\ t[s] = "=") THEN {}
    ELSE {[found |-> TRUE, start |-> s, end |-> s + c[1] + c[2] + c[3] + c[4] + c[5] - 1,
           g1 |-> SubSeq(t, s, s + c[1] - 1),
           g2 |-> SubSeq(t, s + c[1] + c[2], s + c[1] + c[2] + c[3] - 1)] :
            c \in Greediest({x \in (1..RunLen(t, s, IsEq)) \X (0..1) \X (0..Len(t))
                                     \X (0..1) \X (1..Len(t)) :
                                HeaderOK(t, s, x[1], x[2], x[3], x[4], x[5])})}

\* HEADER_REGEX.search(t)
HeaderSearch(t) == Leftmost(UNION {HeaderAt(t, s) : s \in 1..Len(t)})

\* the part of LINK_REGEX after the bar, from index q:
\*   \s{k} ( .{n} \S ) \s{m} \]\]
LinkTailOK(t, q, k, n, m) ==
    LET e == q + k + n
        c == e + m + 1
    IN /\ c + 1 <= Len(t)
       /\ t[c] = "]" /\ t[c + 1] = "]"
       /\ ~IsSpace(t[e])
       /\ \A j \in q..(q + k - 1) : IsSpace(t[j])
       /\ \A j \in (q + k)..(e - 1) : IsDot(t[j])
       /\ \A j \in (e + 1)..(e + m) : IsSpace(t[j])

LinkTail(t, q) ==
    Greediest({x \in (0..RunLen(t, q, IsSpace)) \X (0..Len(t)) \X (0..Len(t)) :
                  LinkTailOK(t, q, x[1], x[2], x[3])})

\* the part of LINK_REGEX up to the bar, at s, with a tail that matches:
\*   \[\[ \s{k} ( .{n} \S ) \s{m} \|
LinkHeadOK(t, s, k, n, m) ==
    LET e == s + 2 + k + n
        bar == e + m + 1
    IN /\ bar <= Len(t)
       /\ t[bar] = "|"
       /\ ~IsSpace(t[e])
       /\ t[s] = "[" /\ t[s + 1] = "["
       /\ \A j \in (s + 2)..(s + 1 + k) : IsSpace(t[j])
       /\ \A j \in (s + 2 + k)..(e - 1) : IsDot(t[j])
       /\ \A j \in (e + 1)..(e + m) : IsSpace(t[j])
       /\ LinkTail(t, bar + 1) # {}

LinkAt(t, s) ==
    IF ~(s + 1 <= Len(t) /\ t[s] = "[" /\ t[s + 1] = "[") THEN {}
    ELSE UNION {
           {[found |-> TRUE, start |-> s,
             end |-> s + h[1] + h[2] + h[3] + 4 + c[1] + c[2] + c[3] + 2,
             url |-> SubSeq(t, s + 2 + h[1], s + 2 + h[1] + h[2]),
             text |-> SubSeq(t, s + h[1] + h[2] + h[3] + 4 + c[1],
                             s + h[1] + h[2] + h[3] + 4 + c[1] + c[2])] :
              c \in LinkTail(t, s + h[1] + h[2] + h[3] + 4)} :
           h \in Greediest({x \in (0..RunLen(t, s + 2, IsSpace)) \X (0..Len(t))
                                    \X (0..Len(t)) :
                               LinkHeadOK(t, s, x[1], x[2], x[3])})}

\* LINK_REGEX.search(t, pos): the leftmost match that starts at pos or later
LinkSearch(t, pos) == Leftmost(UNION {LinkAt(t, s) : s \in pos..Len(t)})

(***************************************************************************)
(* Content rewriting.                                                      *)
(***************************************************************************)
\* clean_links.replace_a_raw_link; index maps a slug to a position in docs
replace_a_raw_link(docs, index, dir, m) ==
    IF format_slug(m.url) \in DOMAIN index
    THEN render_link(dir, docs[index[format_slug(m.url)]].path, m.text)
    ELSE <<"[">> \o m.text \o <<"]", "(">> \o m.url \o <<")">>

\* re.sub(LINK_REGEX, replace_a_raw_link, text): every non-overlapping
\* match from pos on, left to right, is replaced; the rest is copied.
\* m is the match found from pos on.
RECURSIVE re_sub_links(_, _, _, _, _, _)
re_sub_links(t, pos, m, docs, index, dir) ==
    IF ~m.found THEN From(t, pos)
    ELSE SubSeq(t, pos, m.start - 1)
         \o replace_a_raw_link(docs, index, dir, m)
         \o re_sub_links(t, m.end + 1, LinkSearch(t, m.end + 1), docs, index, dir)

\* clean_links.replace_a_link_by_slug
replace_a_link_by_slug(docs, index, dir, m) ==
    IF format_slug(m.slug) \in DOMAIN index
    THEN render_link(dir, docs[index[format_slug(m.slug)]].path,
                     docs[index[format_slug(m.slug)]].title)
    ELSE <<"[">> \o format_slug(m.slug) \o <<"]", "(">> \o format_slug(m.slug) \o <<")">>

\* clean_headers.replace_a_header
replace_a_header(m) ==
    Repeat("#", Len(m.g1)) \o <<SP>> \o m.g2 \o <<NL>>

\* the body of the loop of custom_re_sub: the match m of text is replaced
\* by r; text[m.end() + 1:] starts one character after the match
custom_re_sub_step(text, m, r) ==
    Before(text, m.start) \o r \o From(text, m.end + 2)

\* clean_content, line 111
with_title(d) == <<"#", SP>> \o d.title \o <<NL, NL>> \o d.content

NoStep == [op |-> "none"]
NoLink == [called |-> FALSE]

\* what render_link was called with, and what regressive_relative_to gave
LinkCall(from_, to) ==
    [called |-> TRUE, from |-> from_, to |-> to,
     result |-> regressive_relative_to(from_, to)]

(***************************************************************************)
(* main.  pc is the loop main is in and i the position in that loop; the   *)
(* two loops of custom_re_sub inside clean_content are "links" and         *)
(* "headers", one action for each of their iterations.                     *)
(***************************************************************************)
after_loop_save_first(phase, n) ==
    IF n = 0 THEN "done"
    ELSE CASE phase = "select" -> "correct"
           [] phase = "correct" -> "save"
           [] phase = "save" -> "clean"
           [] phase = "clean" -> "done"

\* the loop entered after the loop named phase, over n documents
after_loop(phase, n) ==
    IF n = 0 THEN "done"
    ELSE CASE phase = "select" -> "correct"
           [] phase = "correct" -> "clean"
           [] phase = "clean" -> "save"
           [] phase = "save" -> "done"

\* lines 214-215: the next row becomes a Document (its parent directory is
\* created) and is offered to select_max_version_of_documents
Select ==
    /\ pc = "select" /\ i <= Len(rows)
    /\ \E doc \in {Document(rows[i])} :
          /\ dirs' = DirsAfterInit(dirs, doc.path)
          /\ max_versions' = select_step(max_versions, doc)
    /\ i' = i + 1
    /\ UNCHANGED <<rows, files, pc, filtered_docs, docs_by_slug, saved, last, linked>>

\* lines 215-216: the values of max_versions become filtered_docs, indexed
\* by slug
BuildIndex ==
    /\ pc = "select" /\ i > Len(rows)
    /\ filtered_docs' = max_versions
    /\ docs_by_slug' = get_documents_by_slug(max_versions)
    /\ pc' = after_loop("select", Len(max_versions))
    /\ i' = 1
    /\ UNCHANGED <<rows, dirs, files, max_versions, saved, last, linked>>

\* lines 217-218
CorrectPath ==
    /\ pc = "correct"
    /\ filtered_docs' = [filtered_docs EXCEPT
                           ![i].path = correct_path(dirs, filtered_docs[i].path)]
    /\ IF i < Len(filtered_docs)
       THEN i' = i + 1 /\ pc' = pc
       ELSE i' = 1 /\ pc' = after_loop("correct", Len(filtered_docs))
    /\ UNCHANGED <<rows, dirs, files, max_versions, docs_by_slug, saved, last, linked>>

\* lines 111-127: the title line is put first and the explicit links are
\* substituted
CleanBegin ==
    /\ pc = "clean"
    /\ \E d \in {filtered_docs[i]} :
          filtered_docs' = [filtered_docs EXCEPT ![i].content =
              re_sub_links(with_title(d), 1, LinkSearch(with_title(d), 1),
                           filtered_docs, docs_by_slug, Parent(d.path))]
    /\ pc' = "links"
    /\ last' = NoStep
    /\ linked' = NoLink
    /\ UNCHANGED <<rows, dirs, files, i, max_versions, docs_by_slug, saved>>

\* lines 138-139, one iteration of the loop of custom_re_sub
LinkReplace ==
    /\ pc = "links"
    /\ \E d \in {filtered_docs[i]} : \E m \in {InternalSearch(d.content)} :
          /\ m.found
          /\ \E r \in {replace_a_link_by_slug(filtered_docs, docs_by_slug,
                                              Parent(d.path), m)} :
                /\ Len(custom_re_sub_step(d.content, m, r)) <= MaxText
                /\ filtered_docs' = [filtered_docs EXCEPT
                      ![i].content = custom_re_sub_step(d.content, m, r)]
                /\ last' = [op |-> "links", text |-> d.content, start |-> m.start,
                            end |-> m.end, slug |-> m.slug, by |-> r]
          /\ linked' = IF format_slug(m.slug) \in DOMAIN docs_by_slug
                       THEN LinkCall(Parent(d.path),
                                filtered_docs[docs_by_slug[format_slug(m.slug)]].path)
                       ELSE NoLink
    /\ UNCHANGED <<rows, dirs, files, pc, i, max_versions, docs_by_slug, saved>>

\* lines 138-139, the loop of custom_re_sub ends: no match is left
LinkExit ==
    /\ pc = "links"
    /\ ~InternalSearch(filtered_docs[i].content).found
    /\ pc' = "headers"
    /\ last' = NoStep
    /\ linked' = NoLink
    /\ UNCHANGED <<rows, dirs, files, i, max_versions, filtered_docs, docs_by_slug, saved>>

\* lines 145-146, one iteration of the loop of custom_re_sub
HeaderReplace ==
    /\ pc = "headers"
    /\ \E d \in {filtered_docs[i]} : \E m \in {HeaderSearch(d.content)} :
          /\ m.found
          /\ \E r \in {replace_a_header(m)} :
                /\ Len(custom_re_sub_step(d.content, m, r)) <= MaxText
                /\ filtered_docs' = [filtered_docs EXCEPT
                      ![i].content = custom_re_sub_step(d.content, m, r)]
                /\ last' = [op |-> "headers", text |-> d.content, start |-> m.start,
                            end |-> m.end, g1 |-> m.g1, g2 |-> m.g2, by |-> r]
    /\ UNCHANGED <<rows, dirs, files, pc, i, max_versions, docs_by_slug, saved, linked>>

\* lines 145-146 and 219-220: no heading is left, clean_content returns
HeaderExit ==
    /\ pc = "headers"
    /\ ~HeaderSearch(filtered_docs[i].content).found
    /\ IF i < Len(filtered_docs)
       THEN i' = i + 1 /\ pc' = "clean"
       ELSE i' = 1 /\ pc' = after_loop("clean", Len(filtered_docs))
    /\ last' = NoStep
    /\ UNCHANGED <<rows, dirs, files, max_versions, filtered_docs, docs_by_slug, saved, linked>>

\* lines 221-222 and 171-173: the content is written to the path
Save ==
    /\ pc = "save"
    /\ \E d \in {filtered_docs[i]} :
          files' = {f \in files : f.path # d.path}
                      \cup {[path |-> d.path, content |-> d.content]}
    /\ saved' = saved \cup {i}
    /\ IF i < Len(filtered_docs)
       THEN i' = i + 1 /\ pc' = pc
       ELSE i' = 1 /\ pc' = after_loop("save", Len(filtered_docs))
    /\ UNCHANGED <<rows, dirs, max_versions, filtered_docs, docs_by_slug, last, linked>>

Next ==
    \/ Select
    \/ BuildIndex
    \/ CorrectPath
    \/ CleanBegin
    \/ LinkReplace
    \/ LinkExit
    \/ HeaderReplace
    \/ HeaderExit
    \/ Save

(***************************************************************************)
(* Inputs.  The rows are what cursor.fetchall() returns, in any order; a   *)
(* slug is stored lower-cased and ends in a slash.  The target directory   *)
(* is clean: ./exported is absent or empty.                                *)
(***************************************************************************)
TitleT == <<"T">>

SlugA == <<"a", "/">>
SlugAB == <<"a", "/", "b", "/">>
SlugABC == <<"a", "/", "b", "/", "c", "/">>
SlugC == <<"c", "/">>
SlugAV1 == <<"a", "/", "v", ".", "1", "/">>
SlugV1 == <<"v", ".", "1", "/">>
SlugV2 == <<"v", ".", "2", "/">>
SlugRoot == <<"/">>
SlugS == <<"s", "/">>
SlugX == <<"x", "/">>

CleanDirs == {{<<>>}, {<<>>, Parts(EXPORT_DIR)}}

\* a bare link to slug, a blank line and a heading
LinkTo(slug) ==
    <<"[", "[">> \o slug \o <<"]", "]", NL, NL, "=", SP, "h", SP, "=">>

\* documentPHID is opaque: the rows are numbered in order of first use
FirstUse(f) ==
    \A j \in DOMAIN f :
        \A p \in 1..(f[j].documentPHID - 1) :
            \E k \in 1..(j - 1) : f[k].documentPHID = p

InitState(rs, ds) ==
    /\ rows = rs
    /\ dirs = ds
    /\ files = {}
    /\ pc = "select"
    /\ i = 1
    /\ max_versions = <<>>
    /\ filtered_docs = <<>>
    /\ docs_by_slug = <<>>
    /\ saved = {}
    /\ last = NoStep
    /\ linked = NoLink

\* rows of several versions per document; the rows of a document have the
\* document's slug
VersionSlugs == <<SlugA, SlugAB, SlugC>>

VersionRows ==
    LET Choice == [version : 1..MaxVersion, documentPHID : 1..MaxRows]
        Picks == UNION {{f \in [1..n -> Choice] : FirstUse(f)} : n \in 0..MaxRows}
    IN {[j \in DOMAIN f |->
            [id |-> j, version |-> f[j].version,
             slug |-> VersionSlugs[((f[j].documentPHID - 1) % Len(VersionSlugs)) + 1],
             title |-> TitleT, content |-> LinkTo(SlugA),
             documentPHID |-> f[j].documentPHID]] : f \in Picks}

Init == \E rs \in VersionRows : \E ds \in CleanDirs : InitState(rs, ds)

Spec == Init /\ [][Next]_vars

\* one row per document, with different slugs of every shape; every
\* document links to the document of the next row
PathSlugs == <<SlugRoot, SlugA, SlugAB, SlugABC, SlugC, SlugAV1, SlugV1, SlugV2>>

PathRows ==
    LET Picks == UNION {{f \in [1..n -> DOMAIN PathSlugs] :
                            \A j \in 1..(n - 1) : f[j] < f[j + 1]} : n \in 1..MaxDocs}
    IN {[j \in DOMAIN f |->
            [id |-> j, version |-> 1, slug |-> PathSlugs[f[j]], title |-> TitleT,
             content |-> LinkTo(PathSlugs[f[(j % Len(f)) + 1]]),
             documentPHID |-> j]] : f \in Picks}

InitPaths == \E rs \in PathRows : \E ds \in CleanDirs : InitState(rs, ds)

SpecPaths == InitPaths /\ [][Next]_vars

\* the texts made of at most n of the chunks
RECURSIVE Texts(_, _)
Texts(Chunks, n) ==
    IF n = 0 THEN {<<>>}
    ELSE Texts(Chunks, n - 1)
         \cup {t \o c : t \in Texts(Chunks, n - 1), c \in Chunks}

\* a document at s/ with any content and a document at x/ it may link to
TextRows(Contents, Titles) ==
    {<<[id |-> 1, version |-> 1, slug |-> SlugS, title |-> TitleT,
        content |-> c, documentPHID |-> 1],
       [id |-> 2, version |-> 1, slug |-> SlugX, title |-> t,
        content |-> <<>>, documentPHID |-> 2]>> : c \in Contents, t \in Titles}

InitText ==
    \E rs \in TextRows(Texts({<<"[", "[">>, <<"]", "]">>, <<"x">>, <<"X">>, <<SP>>,
                              <<NL>>, <<"=">>, <<"=", "=">>, <<"|">>}, MaxChunks),
                       {TitleT}) :
        InitState(rs, {<<>>})

SpecText == InitText /\ [][Next]_vars

\* titles that hold a link or a heading of their own
InitLoop ==
    \E rs \in TextRows({<<>>, <<"[", "[", "x", "]", "]">>, <<"=", "x", "=">>,
                        <<"[", "[", "x", "]", "]", NL, NL, "=", "x", "=">>},
                       {TitleT, <<"a", "[", "[", "x", "]", "]", "b">>,
                        <<"[", "[", "x", "]", "]">>, <<"=", "T", "=">>}) :
        InitState(rs, {<<>>})

\* main runs on: no step of it waits for anything
SpecLoop == InitLoop /\ [][Next]_vars /\ WF_vars(Next)

(***************************************************************************)
(* Properties.                                                             *)
(***************************************************************************)
Docs == 1..Len(filtered_docs)
PathsFixed == pc \in {"clean", "links", "headers", "save", "done"}
ExportRoot == Parts(EXPORT_DIR)

\* the segments of a slug; the root slug has none
Segments(slug) == Parts(slug)
Under(a, b) == IsPrefix(Segments(a), Segments(b)) /\ Segments(a) # Segments(b)
HasDescendant(slug) == \E j \in 1..Len(rows) : Under(slug, rows[j].slug)
LeafFile(slug) ==
    ExportRoot \o Parent(Segments(slug))
               \o <<Segments(slug)[Len(Segments(slug))] \o MD>>

\* C1: after select_max_version_of_documents there is exactly one document
\* for every documentPHID of the rows, and it is the first row among those
\* of the greatest version of that documentPHID.
C1_MaxVersion ==
    pc # "select" =>
      /\ \A j \in 1..Len(rows) :
            Cardinality({k \in Docs :
                filtered_docs[k].documentPHID = rows[j].documentPHID}) = 1
      /\ \A k \in Docs :
            \E j \in 1..Len(rows) :
               /\ rows[j].documentPHID = filtered_docs[k].documentPHID
               /\ filtered_docs[k].id = j
               /\ filtered_docs[k].version = rows[j].version
               /\ \A q \in 1..Len(rows) :
                     rows[q].documentPHID = rows[j].documentPHID =>
                        \/ rows[q].version < rows[j].version
                        \/ rows[q].version = rows[j].version /\ j <= q

C1_Witness ==
    /\ pc = "done"
    /\ \E j, q \in 1..Len(rows) :
          /\ j < q
          /\ rows[j].documentPHID = rows[q].documentPHID
          /\ rows[j].version = rows[q].version
          /\ \E k \in Docs : filtered_docs[k].id = j

Corrected(k) == filtered_docs[k].path # max_versions[k].path
Cleaned(k) ==
    /\ filtered_docs[k].content # max_versions[k].content
    /\ ~InternalSearch(filtered_docs[k].content).found
    /\ ~HeaderSearch(filtered_docs[k].content).found

\* C2: a content changes only when every path has been corrected, and no
\* path changes from then on; a document is saved only when every content
\* has been rewritten to the end; a saved document never changes.
C2_Order ==
    [][/\ (\E k \in Docs : k <= Len(filtered_docs') /\
              filtered_docs'[k].content # filtered_docs[k].content)
          => /\ \A j \in Docs : Corrected(j)
             /\ \A j \in Docs : filtered_docs'[j].path = filtered_docs[j].path
       /\ saved' # saved => \A j \in Docs : Corrected(j) /\ Cleaned(j)
       /\ \A k \in saved : filtered_docs'[k] = filtered_docs[k]]_vars

C2_Witness == pc = "done" /\ Cardinality(saved) >= 2

\* C3: when a/ and a/b/ both have a document, the path of a/ is
\* <export_root>/a/README.md and the path of a/b/ is <export_root>/a/b.md,
\* or <export_root>/a/b/README.md when a row has a slug under a/b/.
C3_ParentAndChild ==
    PathsFixed =>
      \A j, k \in Docs :
         (/\ Segments(filtered_docs[j].slug) # <<>>
          /\ Under(filtered_docs[j].slug, filtered_docs[k].slug)) =>
            /\ filtered_docs[j].path =
                  ExportRoot \o Segments(filtered_docs[j].slug) \o <<README>>
            /\ filtered_docs[k].path =
                  IF HasDescendant(filtered_docs[k].slug)
                  THEN ExportRoot \o Segments(filtered_docs[k].slug) \o <<README>>
                  ELSE LeafFile(filtered_docs[k].slug)

\* C4: the document of the root slug gets <export_root>/README.md.
C4_Root ==
    PathsFixed =>
      \A k \in Docs :
         filtered_docs[k].slug = SlugRoot =>
            filtered_docs[k].path = ExportRoot \o <<README>>

\* C5: two documents whose slugs are not under one another, and under
\* which no row's slug is, get two different paths, each the slug's leaf
\* segment with .md appended, none README.md.
C5_Leaves ==
    PathsFixed =>
      \A j, k \in Docs :
         (/\ j # k
          /\ Segments(filtered_docs[j].slug) # <<>>
          /\ Segments(filtered_docs[k].slug) # <<>>
          /\ ~IsPrefix(Segments(filtered_docs[j].slug), Segments(filtered_docs[k].slug))
          /\ ~IsPrefix(Segments(filtered_docs[k].slug), Segments(filtered_docs[j].slug))
          /\ ~HasDescendant(filtered_docs[j].slug)
          /\ ~HasDescendant(filtered_docs[k].slug))
         => /\ filtered_docs[j].path # filtered_docs[k].path
            /\ filtered_docs[j].path = LeafFile(filtered_docs[j].slug)
            /\ filtered_docs[k].path = LeafFile(filtered_docs[k].slug)
            /\ filtered_docs[j].path[Len(filtered_docs[j].path)] # README

\* the path with every ".." segment resolved against the segment before it
RECURSIVE Resolve(_, _)
Resolve(done, p) ==
    IF p = <<>> THEN done
    ELSE IF p[1] = DotDot /\ done # <<>> /\ done[Len(done)] # DotDot
         THEN Resolve(SubSeq(done, 1, Len(done) - 1), Tail(p))
         ELSE Resolve(Append(done, p[1]), Tail(p))

\* zero or more ".." segments, then none
ClimbsFirst(p) ==
    \A j \in 1..Len(p) : p[j] = DotDot => \A q \in 1..j : p[q] = DotDot

RoundTrip(P, Q, r) ==
    /\ Resolve(<<>>, P \o r.path) = Q
    /\ ClimbsFirst(r.path)
    /\ r.climbs <= Len(P) - Len(ExportRoot)
    /\ Cardinality({j \in 1..Len(r.path) : r.path[j] = DotDot}) = r.climbs

\* C6: from the directory of any document to the path of any document,
\* both under the export root, regressive_relative_to climbs at most as
\* many levels as the directory is deep and gives a path of ".." segments
\* followed by descending segments that leads from the directory to the file.
C6_RoundTrip ==
    PathsFixed =>
      /\ \A j, k \in Docs :
            (/\ IsPrefix(ExportRoot, Parent(filtered_docs[j].path))
             /\ IsPrefix(ExportRoot, filtered_docs[k].path))
            => RoundTrip(Parent(filtered_docs[j].path), filtered_docs[k].path,
                         regressive_relative_to(Parent(filtered_docs[j].path),
                                                filtered_docs[k].path))
      /\ (linked.called /\ IsPrefix(ExportRoot, linked.from))
            => RoundTrip(linked.from, linked.to, linked.result)

C6_Witness ==
    /\ linked.called
    /\ linked.result.climbs >= 2
    /\ Len(linked.result.path) > linked.result.climbs

\* C7: a bare token whose normalized slug is in the index becomes a link to
\* that document with its title as text; any other bare token becomes a
\* link whose text and target are the slug as written.
C7_BareLink ==
    last.op = "links" =>
      LET d == filtered_docs[i]
          slug == format_slug(last.slug)
          want == IF slug \in DOMAIN docs_by_slug
                  THEN <<"[">> \o filtered_docs[docs_by_slug[slug]].title \o <<"]", "(">>
                       \o Str(regressive_relative_to(Parent(d.path),
                              filtered_docs[docs_by_slug[slug]].path).path)
                       \o <<")">>
                  ELSE <<"[">> \o last.slug \o <<"]", "(">> \o last.slug \o <<")">>
      IN /\ Len(d.content) >= last.start + Len(want) - 1
         /\ SubSeq(d.content, last.start, last.start + Len(want) - 1) = want

\* the line of t that starts at index a
LineAt(t, a) == SubSeq(t, a, a + RunLen(t, a, IsDot) - 1)

\* s without the spaces at its ends
Strip(s) ==
    LET N == {j \in 1..Len(s) : s[j] # SP}
    IN IF N = {} THEN <<>> ELSE SubSeq(s, Min(N), Max(N))

\* C8: a line made of n '=', a heading text and n '=' becomes n '#', one
\* space and the heading text, with no '=' left in the line.
C8_Heading ==
    last.op = "headers" =>
      \A n \in 1..Len(last.text) :
         LET line == LineAt(last.text, last.start)
             text == SubSeq(line, n + 1, Len(line) - n)
             new == LineAt(filtered_docs[i].content, last.start)
             want == Repeat("#", n) \o <<SP>> \o Strip(text)
         IN (/\ last.start = 1 \/ last.text[last.start - 1] = NL
             /\ Len(line) > 2 * n
             /\ \A j \in 1..n : line[j] = "=" /\ line[Len(line) + 1 - j] = "="
             /\ Strip(text) # <<>>
             /\ \A j \in 1..Len(text) : text[j] # "=")
            => /\ Len(new) >= Len(want)
               /\ SubSeq(new, 1, Len(want)) = want
               /\ \A j \in 1..Len(new) : new[j] # "="

\* C9: a step of custom_re_sub replaces the matched span and nothing else:
\* the text before the match and the text after it are kept.
C9_ExactSpan ==
    last.op \in {"links", "headers"} =>
      filtered_docs[i].content =
         Before(last.text, last.start) \o last.by \o From(last.text, last.end + 1)

\* C10: the loops of custom_re_sub end, so main ends.
C10_Terminates == <>(pc = "done")

\* The only runs that are not followed to the end are runs of the link loop
\* on a text longer than MaxText, in which the step before rewrote the token
\* the next step finds again and left the text longer.
CutOnlyWhenGrowing ==
    (pc # "done" /\ ~ENABLED Next) =>
       /\ pc = "links"
       /\ last.op = "links"
       /\ InternalSearch(filtered_docs[i].content).found
       /\ InternalSearch(filtered_docs[i].content).slug = last.slug
       /\ Len(filtered_docs[i].content) > Len(last.text)


\* Two successive steps of the link loop that replace the same token by the
\* same link, the second further right, leave a text in which the search
\* finds that token again, further right by as much, and longer: the step
\* repeats.
StepRepeats ==
    [][(/\ last.op = "links" /\ last'.op = "links" /\ i' = i
        /\ last'.slug = last.slug /\ last'.by = last.by
        /\ last'.start > last.start)
       => /\ InternalSearch(filtered_docs'[i].content).found
          /\ InternalSearch(filtered_docs'[i].content).slug = last.slug
          /\ InternalSearch(filtered_docs'[i].content).start
                = last'.start + (last'.start - last.start)
          /\ Len(filtered_docs'[i].content) > Len(last'.text)]_vars

====
